---- MODULE Spec2Model ----
(***************************************************************************)
(* templatex: template composition and render caching.                     *)
(*                                                                         *)
(* The model follows Engine.Render and its helpers statement by statement. *)
(* Goroutines call Render on one shared engine; every access to shared     *)
(* state (the render cache, the layout-chain cache, the buffer pool) is a  *)
(* step of its own, so that every interleaving of concurrent renders is    *)
(* explored.  Byte strings are TLA+ strings and are built with \o exactly  *)
(* where the code concatenates or formats.                                 *)
(***************************************************************************)
EXTENDS Integers, Sequences, FiniteSets, TLC

(***************************************************************************)
(* Bounds of the model.                                                    *)
(***************************************************************************)
\* goroutines that call into the engine
NProcs == 2
\* Render calls started in one behaviour
MaxCalls == 2

Procs == 1 .. NProcs
\* the bytes.Buffer objects: a goroutine holds at most two at a time
BufIds == 1 .. 2 * NProcs

(***************************************************************************)
(* Template fixture.  A compiled template is a sequence of actions of the  *)
(* template language: literal text, {{.}}, a field access {{.Username}},   *)
(* a translation {{T "hello"}} and, in layouts, {{embed}}.                 *)
(***************************************************************************)
Lit(s) == [op |-> "lit", arg |-> s]
Dot == [op |-> "data", arg |-> ""]
Field == [op |-> "field", arg |-> "Username"]
Tr(k) == [op |-> "T", arg |-> k]
Embed == [op |-> "embed", arg |-> ""]

\* template.New(""): the root of the set, registered under the empty name
\* and without a body
RootTemplate == << [op |-> "incomplete", arg |-> ""] >>

\* the template set parsed by New: name -> compiled template
ParsedTemplates ==
  [n \in {"", "page", "form", "L1", "L2", "L1:L2"} |->
     CASE n = "" -> RootTemplate
       [] n = "page" -> << Lit("p["), Dot, Lit("]"), Tr("hello") >>
       [] n = "form" -> << Lit("f["), Field, Lit("]") >>
       [] n = "L1"   -> << Lit("<1>"), Embed, Lit("</1>") >>
       [] n = "L2"   -> << Lit("<2>"), Tr("hello"), Embed, Field, Lit("</2>") >>
       [] n = "L1:L2" -> << Lit("<12>"), Embed, Lit("</12>") >>]

\* e.templates == nil
NoTemplates == << >>

\* (*template.Template).Lookup: the template or nil
NilTemplate == << >>
Lookup(tmpls, name) ==
  IF name \in DOMAIN tmpls THEN tmpls[name] ELSE NilTemplate

(***************************************************************************)
(* Binding values, tagged with their dynamic Go type.                      *)
(***************************************************************************)
StrB(s) == [kind |-> "string", v |-> s]
BytesB(s) == [kind |-> "bytes", v |-> s]
StructB(s) == [kind |-> "struct", v |-> s]
\* the nil interface
NilB == [kind |-> "nil", v |-> ""]
\* a value with a String method
StringerB(s) == [kind |-> "stringer", v |-> s]
\* a nil pointer whose type has a String method with a value receiver
NilStringerB == [kind |-> "nilStringer", v |-> "<nil>"]
\* a struct that gob cannot encode (no exported field)
OpaqueB == [kind |-> "opaque", v |-> "{}"]
\* a *int: the value pointed to, and the address of the object
PtrB(s, addr) == [kind |-> "ptr", v |-> s, addr |-> addr]
\* a map[int]string with two entries or more: its value, and the order in
\* which a range over it visits the entries when the key is computed
MapB(s, iter) == [kind |-> "map", v |-> s, iter |-> iter]

\* fmt.Sprint of a byte slice prints the decimal value of every byte
DecimalBytes(s) ==
  CASE s = "" -> "[]"
    [] s = "a" -> "[97]"
    [] s = "L1" -> "[76 49]"
    [] OTHER -> "[" \o s \o "]"

\* what {{.}} prints for the binding
PrintValue(b) ==
  CASE b.kind = "string" -> b.v
    [] b.kind = "bytes" -> DecimalBytes(b.v)
    [] b.kind = "struct" -> "{" \o b.v \o "}"
    [] b.kind = "map" -> "map[" \o b.v \o "]"
    [] OTHER -> b.v

\* {{.Username}} can be evaluated on a struct only
HasField(b) == b.kind = "struct"

(***************************************************************************)
(* Context-scoped functions.                                               *)
(***************************************************************************)
\* ctxi18n.Locale(ctx): the contexts are "none" (no locale) or a locale code
\* getTranslator: without a locale the key itself, else the translation
getTranslator(ctx, key) ==
  CASE ctx = "none" -> key
    [] ctx = "en" -> "Hello"
    [] ctx = "fr" -> "Bonjour"
    [] OTHER -> key

\* the function set a template is executed with: the context whose
\* translator is bound to T, and what embed returns
Funcs(ctx, embedded) == [ctx |-> ctx, embed |-> embedded]

(***************************************************************************)
(* Template execution.  Execute appends to the buffer action by action and *)
(* stops at the first action that fails, leaving what it wrote so far.     *)
(***************************************************************************)
RECURSIVE Execute(_, _, _, _, _)
Execute(body, i, data, fns, buf) ==
  IF i > Len(body) THEN [buf |-> buf, ok |-> TRUE]
  ELSE LET ins == body[i] IN
    CASE ins.op = "lit" -> Execute(body, i + 1, data, fns, buf \o ins.arg)
      [] ins.op = "data" -> Execute(body, i + 1, data, fns, buf \o PrintValue(data))
      [] ins.op = "T" -> Execute(body, i + 1, data, fns, buf \o getTranslator(fns.ctx, ins.arg))
      [] ins.op = "embed" -> Execute(body, i + 1, data, fns, buf \o fns.embed)
      [] ins.op = "field" ->
           IF HasField(data) THEN Execute(body, i + 1, data, fns, buf \o data.v)
           ELSE [buf |-> buf, ok |-> FALSE]
      [] ins.op = "incomplete" -> [buf |-> buf, ok |-> FALSE]

\* Clone, Funcs, Execute into buf
executeTemplateWithFuncs(tmpl, buf, data, fns) == Execute(tmpl, 1, data, fns, buf)

(***************************************************************************)
(* Errors: the sentinel errors an error matches under errors.Is, and the   *)
(* text it carries.                                                        *)
(***************************************************************************)
NoError == [is |-> {}, msg |-> ""]
ErrTemplateEngineNotInitialized ==
  [is |-> {"ErrTemplateEngineNotInitialized"}, msg |-> "template engine is not initialized"]
ErrNoTemplateDirectory ==
  [is |-> {"ErrNoTemplateDirectory"}, msg |-> "no template patterns provided"]
\* errors.Join(ErrNoTemplateDirectory, fmt.Errorf(...: %s", root))
DirectoryNotFound(root) ==
  [is |-> {"ErrNoTemplateDirectory"},
   msg |-> "no template patterns provided\ntemplate directory does not exist: " \o root]
\* errors.Join(ErrTemplateParsingFailed, err)
ParsingFailed(what) ==
  [is |-> {"ErrTemplateParsingFailed"}, msg |-> "template parsing failed\n" \o what]
ErrNoTemplatesParsed ==
  [is |-> {"ErrNoTemplatesParsed"}, msg |-> "no templates parsed"]
\* the bare sentinel, without the name
TemplateNotFound_NoName(name) ==
  [is |-> {"ErrTemplateNotFound"}, msg |-> "template not found"]

\* errors.Join(ErrTemplateNotFound, fmt.Errorf("template: %s", name))
TemplateNotFound(name) ==
  [is |-> {"ErrTemplateNotFound"}, msg |-> "template not found\ntemplate: " \o name]
\* errors.Join(ErrTemplateExecutionFailed, err)
ExecutionFailed(what) ==
  [is |-> {"ErrTemplateExecutionFailed"}, msg |-> "template execution failed\n" \o what]
\* fmt.Errorf("layout not found: %s", layout)
LayoutNotFound(layout) == [is |-> {}, msg |-> "layout not found: " \o layout]

\* a run-time panic that unwinds the call
Panic(what) == [is |-> {"panic"}, msg |-> what]

\* the error of the caller's sink
ErrSink == [is |-> {"sink"}, msg |-> "write failed"]

\* io.WriteString(out, s): a healthy sink takes all of s, a failing sink
\* takes nothing and reports its error
WriteString(out, sink, s) ==
  IF sink = "ok" THEN [out |-> out \o s, err |-> NoError]
  ELSE [out |-> out, err |-> ErrSink]

(***************************************************************************)
(* Render-cache key.                                                       *)
(***************************************************************************)
\* strings.Join
RECURSIVE Join(_, _)
Join(elems, sep) ==
  IF Len(elems) = 0 THEN ""
  ELSE IF Len(elems) = 1 THEN elems[1]
  ELSE elems[1] \o sep \o Join(Tail(elems), sep)

\* the locale of a call: "en" unless the context carries one
LocaleOf(ctx) == IF ctx = "none" THEN "en" ELSE ctx

\* gob encoding of a struct value: the type description and the fields;
\* of a map: the entries in the order the range over the map gives them
GobEncode(b) ==
  IF b.kind = "map"
  THEN "gob(map[int]string{" \o b.v \o "}/" \o b.iter \o ")"
  ELSE "gob(pageData{Username:" \o b.v \o "})"

\* v.String() on the binding panics: the method has a value receiver and
\* the pointer it is called through is nil
StringPanics(b) == b.kind = "nilStringer"

\* the bytes of the binding written to the hash; gob leaves nothing in its
\* buffer for a value it cannot encode, and the error is ignored
BindingBytes(b) ==
  CASE b.kind = "nil" -> ""
    [] b.kind = "string" -> b.v
    [] b.kind = "bytes" -> b.v
    [] b.kind = "stringer" -> b.v
    [] b.kind = "struct" -> GobEncode(b)
    [] b.kind = "map" -> GobEncode(b)
    [] b.kind = "opaque" -> ""
    [] b.kind = "ptr" -> b.addr
    [] OTHER -> b.v

\* FNV-64a of the bytes written, in hex.  The hash is taken to be free of
\* collisions: two keys are equal exactly when the hashed bytes are.
Sum64Hex(written) == "fnv64a(" \o written \o ")"

\* a key that folds the binding in whatever the mode
generateCacheKey_IgnoresMode(hard, locale, name, binding, layouts) ==
  Sum64Hex(locale \o ":" \o name \o ":"
           \o (IF Len(layouts) > 0 THEN Join(layouts, ":") ELSE "")
           \o BindingBytes(binding))

generateCacheKey(hard, locale, name, binding, layouts) ==
  LET baseKey == locale \o ":" \o name \o ":" IN
  IF hard THEN baseKey \o ":" \o Join(layouts, ":")
  ELSE Sum64Hex(baseKey
                 \o (IF Len(layouts) > 0 THEN Join(layouts, ":") ELSE "")
                 \o BindingBytes(binding))

(***************************************************************************)
(* State.                                                                  *)
(***************************************************************************)
VARIABLES
  root,               \* the directory New was called with, or NoRoot
  newErr,             \* the error New returned
  engineNil,          \* the *Engine the callers hold is nil
  templates,          \* e.templates: the registry, or NoTemplates
  hardCache,          \* e.hardCache, set by WithHardCache
  layoutCacheEnable,  \* e.layoutCacheEnable
  commonLayouts,      \* e.commonLayouts, set by WithLayouts
  eLayouts,           \* e.layouts: the names of the pre-compiled layouts
  mu,                 \* e.mu: the goroutines that hold the read lock
  cache,              \* e.cache: key -> rendered content
  layoutCache,        \* e.layoutCache: key -> chain of templates
  bufferPool,         \* the buffers lying in the sync.Pool
  buffers,            \* the content of every buffer object
  g,                  \* the goroutines: position and locals of the call
  funcMaps,           \* the template.FuncMap objects: reference -> content
  fm,                 \* the FuncMap reference a caller got from GetFuncMap
  origin,             \* history: key -> the call that stored the entry
  history             \* history: the calls that returned, in order

vars == << root, newErr, engineNil, templates, hardCache, layoutCacheEnable,
           commonLayouts, eLayouts, mu, cache, layoutCache, bufferPool, buffers, g, funcMaps, fm, origin,
           history >>

\* the fields of the Engine but its caches and function maps, and the
\* references the callers hold
engineFields ==
  << root, newErr, engineNil, templates, hardCache, layoutCacheEnable,
     commonLayouts, eLayouts, fm >>

\* the same and the lock
registryVars == << engineFields, mu >>

\* what no step of Render, RenderString and RenderHTML writes
engineVars == << registryVars, funcMaps >>

NoBuf == 0

\* what RenderString and RenderHTML return: the type and the bytes
NoResult == [type |-> "", v |-> ""]

\* a goroutine outside Render.  api is the method the caller invoked, obuf
\* the buffer RenderString or RenderHTML passes to Render as its sink; gets
\* and puts count the Get and Put calls the call made on the pool
Idle ==
  [pc |-> "idle", ctx |-> "none", name |-> "", binding |-> StrB(""),
   layouts |-> << >>, sink |-> "ok", cacheKey |-> "", buf |-> NoBuf,
   content |-> "", chain |-> << >>, i |-> 0, err |-> NoError, out |-> "",
   hit |-> FALSE, stored |-> FALSE, trace |-> << >>,
   api |-> "Render", obuf |-> NoBuf, result |-> NoResult,
   gets |-> 0, puts |-> 0]

\* the arguments of one Render call
Args(ctxs, names, bindings, lists, sinks) ==
  [ctx : ctxs, name : names, binding : bindings, layouts : lists, sink : sinks]

ArgsOf(r) ==
  [ctx |-> r.ctx, name |-> r.name, binding |-> r.binding,
   layouts |-> r.layouts, sink |-> r.sink]

(***************************************************************************)
(* New.  The directories of the file system: one that does not exist, one  *)
(* without a template file, one with a file that does not compile, and the *)
(* one with the templates of the fixture.                                  *)
(***************************************************************************)
Roots == {"", "nonexistent", "emptydir", "broken", "templates"}

\* os.Stat(root) does not report IsNotExist
DirExists(dir) == dir \in {"emptydir", "broken", "templates"}

\* e.exts when no WithExtensions option is given
Exts == {".gohtml"}

\* a file below the root: the elements of its path relative to the root
\* (the last is the file name without its extension), its extension, the
\* {{define}} blocks of its content (name -> body), the content outside
\* them, and what its compilation reports
File(segs, ext, defines, body, err) ==
  [segs |-> segs, ext |-> ext, defines |-> defines, body |-> body,
   err |-> err]

\* the files under the directory
Files(dir) ==
  CASE dir = "templates" ->
         {File(<< n >>, ".gohtml", << >>, ParsedTemplates[n], "") :
            n \in DOMAIN ParsedTemplates \ {""}}
         \cup {File(<< "mail", "welcome" >>, ".gohtml", << >>,
                    << Lit("w["), Dot, Lit("]") >>, ""),
               File(<< "partials" >>, ".gohtml",
                    ("header" :> << Lit("<h>") >>), << Lit(" ") >>, ""),
               File(<< "notes" >>, ".txt", << >>, << Lit("n") >>, "")}
    [] dir = "broken" ->
         {File(<< "page" >>, ".gohtml", << >>, ParsedTemplates["page"], ""),
          File(<< "bad" >>, ".gohtml", << >>, << >>, "bad: unexpected EOF")}
    [] OTHER -> {}

\* filepath.Rel(root, path) with the separators replaced by "/"
RelPath(f) == Join(f.segs, "/") \o f.ext

\* strings.TrimSuffix(relPath, filepath.Ext(relPath))
TmplName(f) == Join(f.segs, "/")

\* filepath.Base(path), the name ParseFiles gives the file's template
Base(f) == f.segs[Len(f.segs)] \o f.ext

\* the files whose extension is one of exts
ValidExt(dir) == {f \in Files(dir) : f.ext \in Exts}

\* what walkFunc adds to the set for one file: ParseFiles for a file with
\* a {{define}} block, New(tmplName).Parse for any other
Parsed(f) ==
  IF f.defines # << >>
  THEN (Base(f) :> f.body) @@ f.defines
  ELSE (TmplName(f) :> f.body)

\* filepath.Walk with walkFunc on template.New(""): the set with every file
\* compiled into it, or the error of a file that does not compile.  No two
\* files of the directories above give one name.
Walk(dir) ==
  LET files == ValidExt(dir)
      bad == {f \in files : f.err # ""}
      names == UNION {DOMAIN Parsed(f) : f \in files}
  IN IF bad # {}
     THEN [tmpl |-> NoTemplates, err |-> (CHOOSE f \in bad : TRUE).err]
     ELSE [tmpl |-> [n \in {""} \cup names |->
                      IF n = "" THEN RootTemplate
                      ELSE Parsed(CHOOSE f \in files :
                                    n \in DOMAIN Parsed(f))[n]],
           err |-> ""]

\* (*template.Template).Templates(): a slice made for the call, with the
\* templates of the set, the root among them; it is never the nil slice
Templates(tmpl) == [isNil |-> FALSE, elems |-> DOMAIN tmpl]

\* defaultFuncs(): name -> implementation; the context functions are
\* placeholders
DefaultFuncs ==
  [n \in {"embed", "T", "ctxVal", "default"} |->
     IF n = "default" THEN "defaultValue" ELSE "placeholder"]

\* WithFunc("upper", strings.ToUpper) applied to the map
InitialFuncs == ("upper" :> "strings.ToUpper") @@ DefaultFuncs

\* references to FuncMap objects: the nil map, and the map New makes
NilMap == 0
EngineFuncMap == 1
\* the function map of the template set, filled by Funcs(e.funcMap) in New
TemplateFuncs == 2

\* the functions Render binds for one call: the closures over its context
\* and, for a layout, over the content so far
CallFuncs(fns) ==
  [n \in {"T", "ctxVal", "embed"} |->
     IF n = "embed" THEN "embed:" \o fns.embed ELSE n \o ":" \o fns.ctx]

\* Funcs called on the registered template itself
CloneFuncs_OnRegistered(fmaps, fns) ==
  [fmaps EXCEPT ![TemplateFuncs] = CallFuncs(fns) @@ @]

\* tmpl.Clone() and Funcs(fns) on the clone: Clone copies the function
\* maps entry by entry, so the call's functions go into maps of the clone
\* and the maps of the registered set stay as they are
CloneFuncs(fmaps, fns) == fmaps

\* the *Engine and the error New returns
NilEngine(err) ==
  [isNil |-> TRUE, templates |-> NoTemplates, hardCache |-> FALSE,
   layoutCacheEnable |-> FALSE, funcMap |-> NilMap, err |-> err]

New(dir, hard, chainCache) ==
  IF dir = "" THEN NilEngine(ErrNoTemplateDirectory)
  ELSE IF ~DirExists(dir) THEN NilEngine(DirectoryNotFound(dir))
  ELSE LET w == Walk(dir) IN
    IF w.err # "" THEN NilEngine(ParsingFailed(w.err))
    ELSE IF Templates(w.tmpl).isNil THEN NilEngine(ErrNoTemplatesParsed)
    ELSE [isNil |-> FALSE, templates |-> w.tmpl, hardCache |-> hard,
          layoutCacheEnable |-> chainCache, funcMap |-> EngineFuncMap,
          err |-> NoError]

\* an Engine value that New did not make
NoRoot == "Engine{}"
ZeroEngine ==
  [isNil |-> FALSE, templates |-> NoTemplates, hardCache |-> FALSE,
   layoutCacheEnable |-> FALSE, funcMap |-> NilMap, err |-> NoError]

\* WithLayouts(layouts...): the option leaves e.commonLayouts as it is when
\* it is given no name
WithLayouts(common, names) == IF Len(names) > 0 THEN names ELSE common

\* precompileCommonLayouts: the common layouts that Lookup finds go into
\* e.layouts, the others are skipped
precompileCommonLayouts(tmpl, common) ==
  {common[k] : k \in {n \in 1 .. Len(common) :
                        Lookup(tmpl, common[n]) # NilTemplate}}

\* the engine is what New returned for some directory, some cache options
\* and one of the WithLayouts options given, or a zero-value Engine
InitWith(layoutOptions) ==
  /\ \E dir \in Roots \cup {NoRoot}, hard \in BOOLEAN, chainCache \in BOOLEAN,
        names \in layoutOptions :
       LET e == IF dir = NoRoot THEN ZeroEngine ELSE New(dir, hard, chainCache)
           common == IF dir = NoRoot \/ e.isNil THEN << >>
                     ELSE WithLayouts(<< >>, names)
       IN /\ root = dir
          /\ commonLayouts = common
          /\ eLayouts = precompileCommonLayouts(e.templates, common)
          /\ newErr = e.err
          /\ engineNil = e.isNil
          /\ templates = e.templates
          /\ hardCache = e.hardCache
          /\ layoutCacheEnable = e.layoutCacheEnable
          /\ funcMaps = IF e.funcMap = NilMap THEN << >>
                        ELSE (e.funcMap :> InitialFuncs)
                             @@ (TemplateFuncs :> InitialFuncs)
  /\ fm = [p \in Procs |-> NilMap]
  /\ mu = {}
  /\ cache = << >>
  /\ layoutCache = << >>
  /\ bufferPool = {}
  /\ buffers = [b \in BufIds |-> ""]
  /\ g = [p \in Procs |-> Idle]
  /\ origin = << >>
  /\ history = << >>

\* New without the WithLayouts option
Init == InitWith({<< >>})

\* the buffers some goroutine holds
Held == UNION {{g[p].buf, g[p].obuf} : p \in Procs} \ {NoBuf}

\* the calls started so far
Started == Len(history) + Cardinality({p \in Procs : g[p].pc # "idle"})

\* a return that flushes the working buffer of the last execution to the
\* sink
Return_FlushesBuffer(p, gp, err) ==
  /\ g' = [g EXCEPT ![p] = [gp EXCEPT !.pc = "done", !.err = err, !.buf = NoBuf,
               !.out = IF err # NoError /\ Len(gp.trace) > 0
                       THEN gp.out \o gp.trace[Len(gp.trace)].after
                       ELSE gp.out]]
  /\ bufferPool' = IF g[p].buf = NoBuf THEN bufferPool
                   ELSE bufferPool \cup {g[p].buf}
  /\ history' = Append(history, g'[p])

\* a deferred Put that is skipped when the call fails
PutBack_OnSuccessOnly(b, err) ==
  IF b = NoBuf \/ err # NoError THEN << >> ELSE << b >>

\* defer bufferPool.Put(buf): the buffer the call holds goes back to the
\* pool whatever the result
PutBack(b, err) == IF b = NoBuf THEN << >> ELSE << b >>

Range(seq) == {seq[k] : k \in 1 .. Len(seq)}

\* Render returns err: the deferred bufferPool.Put(buf) runs; the caller of
\* Render has the error and what its sink received, RenderString and
\* RenderHTML go on with the error
Return(p, gp, err) ==
  LET back == PutBack(g[p].buf, err)
      r == [gp EXCEPT !.err = err, !.buf = NoBuf, !.puts = @ + Len(back)]
  IN /\ bufferPool' = bufferPool \cup Range(back)
     /\ IF gp.api = "Render"
        THEN /\ g' = [g EXCEPT ![p] = [r EXCEPT !.pc = "done"]]
             /\ history' = Append(history, g'[p])
        ELSE /\ g' = [g EXCEPT ![p] = [r EXCEPT !.pc = "ret"]]
             /\ UNCHANGED history

(***************************************************************************)
(* Engine.Render, step by step.                                            *)
(***************************************************************************)
\* a guard that forgets the zero-value Engine
NotInitialized_NilOnly(isNil, tmpls) == isNil

\* e == nil || e.templates == nil
NotInitialized(isNil, tmpls) == isNil \/ tmpls = NoTemplates

\* bufferPool.New: a buffer object that did not exist (the lowest free id)
\* an unlock that leaves the goroutine among the readers
RUnlock_Missing(m, p) == m

\* e.mu.RLock(): the goroutine is one of the readers; the engine has no
\* writer, so the call never waits
RLock(m, p) == m \cup {p}

\* e.mu.RUnlock()
RUnlock(m, p) == m \ {p}

NewBuffer == 
  LET free == BufIds \ (Held \cup bufferPool)
  IN IF free = {} THEN {} ELSE {CHOOSE b \in free : \A c \in free : b <= c}

\* a pool that also hands out buffers that are still in use
PoolGet_SharesHeld == bufferPool \cup NewBuffer \cup Held

\* bufferPool.Get(): a pooled buffer as it was put back, or a new one
PoolGet == bufferPool \cup NewBuffer

\* a Get that leaves the buffer in the pool
Take_Leaves(pool, b) == pool

\* the pool after Get returned b: the buffer is no longer in it
Take(pool, b) == pool \ {b}

\* a Reset that keeps the content
Reset_Keeps(content) == content

\* buf.Reset()
Reset(content) == ""

\* the head of Render: the nil guard, then the locale and the cache key,
\* whose computation calls the String method of a Stringer
RenderBegin(p, gp) ==
  IF NotInitialized(engineNil, templates)
  THEN Return(p, gp, ErrTemplateEngineNotInitialized)
  ELSE IF StringPanics(gp.binding)
  THEN Return(p, gp, Panic("value method called using nil pointer"))
  ELSE /\ g' = [g EXCEPT ![p] = [gp EXCEPT !.pc = "probe",
                   !.cacheKey = generateCacheKey(hardCache,
                       LocaleOf(gp.ctx), gp.name, gp.binding, gp.layouts)]]
       /\ UNCHANGED << bufferPool, history >>

\* a caller enters Render
RenderEnter(p, a) ==
  /\ g[p].pc = "idle"
  /\ Started < MaxCalls
  /\ RenderBegin(p, [Idle EXCEPT !.ctx = a.ctx, !.name = a.name,
                                 !.binding = a.binding, !.layouts = a.layouts,
                                 !.sink = a.sink])
  /\ UNCHANGED << engineVars, cache, layoutCache, buffers, origin >>

\* a caller enters RenderString or RenderHTML: a buffer from the pool,
\* Reset, to be the sink of Render
RenderStringEnter(p, api, a) ==
  /\ g[p].pc = "idle"
  /\ Started < MaxCalls
  /\ \E b \in PoolGet :
       /\ bufferPool' = Take(bufferPool, b)
       /\ buffers' = [buffers EXCEPT ![b] =
                         Reset(IF b \in bufferPool THEN buffers[b] ELSE "")]
       /\ g' = [g EXCEPT ![p] =
                 [Idle EXCEPT !.pc = "call", !.api = api, !.ctx = a.ctx,
                              !.name = a.name, !.binding = a.binding,
                              !.layouts = a.layouts, !.sink = "ok",
                              !.obuf = b, !.gets = 1]]
  /\ UNCHANGED << engineVars, cache, layoutCache, origin, history >>

\* e.Render(ctx, buf, name, binding, layouts...)
RenderCall(p) ==
  /\ g[p].pc = "call"
  /\ RenderBegin(p, g[p])
  /\ UNCHANGED << engineVars, cache, layoutCache, buffers, origin >>

\* a wrapper that returns the buffer and no error whatever Render returned
ResultOf_IgnoresError(err, content) == [v |-> content, err |-> NoError]

\* if err != nil { return "", err }; return buf.String(), nil
ResultOf(err, content) ==
  IF err # NoError THEN [v |-> "", err |-> err]
  ELSE [v |-> content, err |-> NoError]

\* the type of the value: string, or the conversion template.HTML(string)
ResultType(api) == IF api = "RenderHTML" THEN "template.HTML" ELSE "string"

\* RenderString and RenderHTML return: the result, then the deferred Put
RenderStringReturn(p) ==
  /\ g[p].pc = "ret"
  /\ LET res == ResultOf(g[p].err, buffers[g[p].obuf])
         back == PutBack(g[p].obuf, g[p].err)
     IN /\ g' = [g EXCEPT ![p] =
                  [g[p] EXCEPT !.pc = "done", !.err = res.err, !.obuf = NoBuf,
                     !.result = [type |-> ResultType(g[p].api), v |-> res.v],
                     !.puts = @ + Len(back)]]
        /\ bufferPool' = bufferPool \cup Range(back)
  /\ history' = Append(history, g'[p])
  /\ UNCHANGED << engineVars, cache, layoutCache, buffers, origin >>

\* a probe that never finds the entry
CacheProbe_Executes(p) ==
  /\ g[p].pc = "probe"
  /\ g' = [g EXCEPT ![p].pc = "getbuf"]
  /\ UNCHANGED << engineVars, cache, layoutCache, bufferPool, buffers,
                  origin, history >>

\* the buffers after s was written to the sink of the call: the sink of
\* RenderString and RenderHTML is their buffer, which takes every write
SinkBuffers(p, s) ==
  IF g[p].obuf = NoBuf THEN buffers
  ELSE [buffers EXCEPT ![g[p].obuf] = @ \o s]

\* e.cache.Load(cacheKey): on a hit the cached content goes to the sink
CacheProbe(p) ==
  /\ g[p].pc = "probe"
  /\ IF g[p].cacheKey \in DOMAIN cache
     THEN LET w == WriteString(g[p].out, g[p].sink, cache[g[p].cacheKey])
          IN /\ Return(p, [g[p] EXCEPT !.hit = TRUE, !.out = w.out], w.err)
             /\ buffers' = SinkBuffers(p, cache[g[p].cacheKey])
     ELSE /\ g' = [g EXCEPT ![p].pc = "getbuf"]
          /\ UNCHANGED << bufferPool, buffers, history >>
  /\ UNCHANGED << engineVars, cache, layoutCache, origin >>

\* buf := bufferPool.Get(); buf.Reset()
GetBuffer(p) ==
  /\ g[p].pc = "getbuf"
  /\ \E b \in PoolGet :
       /\ bufferPool' = Take(bufferPool, b)
       /\ buffers' = [buffers EXCEPT ![b] =
                         Reset(IF b \in bufferPool THEN buffers[b] ELSE "")]
       /\ g' = [g EXCEPT ![p].pc = "lookup", ![p].buf = b,
                         ![p].gets = @ + 1]
  /\ mu' = RLock(mu, p)
  /\ UNCHANGED << engineFields, funcMaps, cache, layoutCache, origin,
                  history >>

\* a lookup that remembers the miss in the render cache
LookupBase_CachesMiss(p) ==
  /\ g[p].pc = "lookup"
  /\ IF Lookup(templates, g[p].name) = NilTemplate
     THEN /\ Return(p, g[p], TemplateNotFound(g[p].name))
          /\ cache' = (g[p].cacheKey :> "") @@ cache
     ELSE /\ g' = [g EXCEPT ![p].pc = "execbase"]
          /\ UNCHANGED << bufferPool, history, cache >>
  /\ mu' = RUnlock(mu, p)
  /\ UNCHANGED << engineFields, funcMaps, layoutCache, buffers, origin >>

\* e.templates.Lookup(name) under the read lock, RUnlock, and the return
\* when the template is nil
LookupBase(p) ==
  /\ g[p].pc = "lookup"
  /\ IF Lookup(templates, g[p].name) = NilTemplate
     THEN Return(p, g[p], TemplateNotFound(g[p].name))
     ELSE /\ g' = [g EXCEPT ![p].pc = "execbase"]
          /\ UNCHANGED << bufferPool, history >>
  /\ mu' = RUnlock(mu, p)
  /\ UNCHANGED << engineFields, funcMaps, cache, layoutCache, buffers,
                  origin >>

\* what one execution did: the template, what embed returned, the buffer
\* before and after, and whether it succeeded
ExecStep(name, embedded, before, r) ==
  [tmpl |-> name, embed |-> embedded, before |-> before, after |-> r.buf,
   ok |-> r.ok]

\* execute the base template with the context functions
ExecBase(p) ==
  /\ g[p].pc = "execbase"
  /\ LET b == g[p].buf
         r == executeTemplateWithFuncs(Lookup(templates, g[p].name),
                  buffers[b], g[p].binding, Funcs(g[p].ctx, ""))
         gp == [g[p] EXCEPT !.trace =
                   Append(g[p].trace, ExecStep(g[p].name, "", buffers[b], r))]
     IN /\ buffers' = [buffers EXCEPT ![b] = r.buf]
        /\ IF r.ok
           THEN /\ g' = [g EXCEPT ![p] = [gp EXCEPT !.pc = "chain"]]
                /\ UNCHANGED << bufferPool, history >>
           ELSE Return(p, gp, ExecutionFailed(g[p].name))
  /\ funcMaps' = CloneFuncs(funcMaps, Funcs(g[p].ctx, ""))
  /\ UNCHANGED << registryVars, cache, layoutCache, origin >>

\* a chain of the common layouts for a call that names none
ChainLayouts_Common(common, layouts) ==
  IF layouts = << >> THEN common ELSE layouts

\* e.getLayoutChain(layouts...): the chain is resolved for the layouts of
\* the call; the common layouts of the engine are not consulted
ChainLayouts(common, layouts) == layouts

\* getLayoutChain, first half: no layouts, or a chain from the chain cache
ChainProbe(p) ==
  /\ g[p].pc = "chain"
  /\ LET layouts == ChainLayouts(commonLayouts, g[p].layouts)
         key == Join(layouts, ":") IN
     IF Len(layouts) = 0
     THEN g' = [g EXCEPT ![p].pc = "wrap", ![p].chain = << >>, ![p].i = 1,
                         ![p].content = buffers[g[p].buf]]
     ELSE IF layoutCacheEnable /\ key \in DOMAIN layoutCache
     THEN g' = [g EXCEPT ![p].pc = "wrap", ![p].chain = layoutCache[key],
                         ![p].i = 1, ![p].content = buffers[g[p].buf]]
     ELSE g' = [g EXCEPT ![p].pc = "build"]
  /\ UNCHANGED << engineVars, cache, layoutCache, bufferPool, buffers,
                  origin, history >>

\* a resolution that does not check the lookups
MissingAt_Unchecked(tmpls, layouts) == {}

\* the positions of the list whose layout is not registered
MissingAt(tmpls, layouts) ==
  {k \in 1 .. Len(layouts) : Lookup(tmpls, layouts[k]) = NilTemplate}

Min(S) == CHOOSE m \in S : \A n \in S : m <= n

\* a bounded map that makes room by dropping what it holds
Store_Evicting(m, k, v) == (k :> v)

\* (*sync.Map).Store: the entry is set, every other entry stays
Store(m, k, v) == (k :> v) @@ m

\* a resolution that stores the layouts found before the missing one
ChainBuild_CachesPartial(p) ==
  /\ g[p].pc = "build"
  /\ LET key == Join(g[p].layouts, ":")
         missing == MissingAt(templates, g[p].layouts)
         chain == g[p].layouts
     IN IF missing # {}
        THEN /\ Return(p, g[p], LayoutNotFound(g[p].layouts[Min(missing)]))
             /\ layoutCache' = IF layoutCacheEnable
                  THEN (key :> SubSeq(chain, 1, Min(missing) - 1)) @@ layoutCache
                  ELSE layoutCache
        ELSE /\ g' = [g EXCEPT ![p].pc = "wrap", ![p].chain = chain,
                               ![p].i = 1, ![p].content = buffers[g[p].buf]]
             /\ layoutCache' = IF layoutCacheEnable
                               THEN (key :> chain) @@ layoutCache
                               ELSE layoutCache
             /\ UNCHANGED << bufferPool, history >>
  /\ UNCHANGED << engineVars, cache, buffers, origin >>

\* getLayoutChain, second half: look every layout up, in order, and fail at
\* the first that is missing; store the chain when all are found.  A
\* template pointer is the name the template is registered under.
ChainBuild(p) ==
  /\ g[p].pc = "build"
  /\ LET layouts == ChainLayouts(commonLayouts, g[p].layouts)
         key == Join(layouts, ":")
         missing == MissingAt(templates, layouts)
         chain == layouts
     IN IF missing # {}
        THEN /\ Return(p, g[p], LayoutNotFound(layouts[Min(missing)]))
             /\ UNCHANGED layoutCache
        ELSE /\ g' = [g EXCEPT ![p].pc = "wrap", ![p].chain = chain,
                               ![p].i = 1, ![p].content = buffers[g[p].buf]]
             /\ layoutCache' = IF layoutCacheEnable
                               THEN Store(layoutCache, key, chain)
                               ELSE layoutCache
             /\ UNCHANGED << bufferPool, history >>
  /\ UNCHANGED << engineVars, cache, buffers, origin >>

\* embed left as the placeholder of the default functions
EmbedFor_Placeholder(content) == ""

\* what embed returns while layout number i runs: the content so far
EmbedFor(content) == content

\* a loop that stays on the layout it has executed
RangeNext_Stays(i) == i

\* the range over chain.templates moves to the next position
RangeNext(i) == i + 1

\* one round of the layout loop: Reset, execute the layout with embed bound
\* to the content so far, take the buffer as the new content
WrapLayout(p) ==
  /\ g[p].pc = "wrap"
  /\ g[p].i <= Len(g[p].chain)
  /\ LET b == g[p].buf
         name == g[p].chain[g[p].i]
         before == Reset(buffers[b])
         r == executeTemplateWithFuncs(Lookup(templates, name), before,
                  g[p].binding, Funcs(g[p].ctx, EmbedFor(g[p].content)))
         gp == [g[p] EXCEPT !.trace = Append(g[p].trace,
                   ExecStep(name, EmbedFor(g[p].content), before, r))]
     IN /\ buffers' = [buffers EXCEPT ![b] = r.buf]
        /\ IF r.ok
           THEN /\ g' = [g EXCEPT ![p] = [gp EXCEPT !.i = RangeNext(g[p].i),
                                                   !.content = r.buf]]
                /\ UNCHANGED << bufferPool, history >>
           ELSE Return(p, gp, ExecutionFailed(name))
  /\ funcMaps' = CloneFuncs(funcMaps, Funcs(g[p].ctx, EmbedFor(g[p].content)))
  /\ UNCHANGED << registryVars, cache, layoutCache, origin >>

\* a loop that may be left after its first round
ChainDone_AfterFirst(gp) == gp.i > Len(gp.chain) \/ gp.i > 1

\* the range over chain.templates is exhausted
ChainDone(gp) == gp.i > Len(gp.chain)

\* a store of the base output instead of the final content
CacheStore_StoresBase(p) ==
  /\ g[p].pc = "wrap"
  /\ ChainDone(g[p])
  /\ cache' = (g[p].cacheKey :> g[p].trace[1].after) @@ cache
  /\ origin' = (g[p].cacheKey :> ArgsOf(g[p])) @@ origin
  /\ g' = [g EXCEPT ![p].pc = "emit", ![p].stored = TRUE]
  /\ UNCHANGED << engineVars, layoutCache, bufferPool, buffers, history >>

\* e.cache.Store(cacheKey, content), after the last layout
CacheStore(p) ==
  /\ g[p].pc = "wrap"
  /\ ChainDone(g[p])
  /\ cache' = Store(cache, g[p].cacheKey, g[p].content)
  /\ origin' = (g[p].cacheKey :> ArgsOf(g[p])) @@ origin
  /\ g' = [g EXCEPT ![p].pc = "emit", ![p].stored = TRUE]
  /\ UNCHANGED << engineVars, layoutCache, bufferPool, buffers, history >>

\* a write whose error is dropped
Emit_DropsWriteError(p) ==
  /\ g[p].pc = "emit"
  /\ LET w == WriteString(g[p].out, g[p].sink, g[p].content)
     IN Return(p, [g[p] EXCEPT !.out = w.out], NoError)
  /\ buffers' = SinkBuffers(p, g[p].content)
  /\ UNCHANGED << engineVars, cache, layoutCache, origin >>

\* io.WriteString(out, content); its error is Render's result
Emit(p) ==
  /\ g[p].pc = "emit"
  /\ LET w == WriteString(g[p].out, g[p].sink, g[p].content)
     IN Return(p, [g[p] EXCEPT !.out = w.out], w.err)
  /\ buffers' = SinkBuffers(p, g[p].content)
  /\ UNCHANGED << engineVars, cache, layoutCache, origin >>

\* the caller has its result and is free to call again
Finish(p) ==
  /\ g[p].pc = "done"
  /\ g' = [g EXCEPT ![p] = Idle]
  /\ UNCHANGED << engineVars, cache, layoutCache, bufferPool, buffers,
                  origin, history >>

Step(p) ==
  \/ CacheProbe(p)
  \/ GetBuffer(p)
  \/ LookupBase(p)
  \/ ExecBase(p)
  \/ ChainProbe(p)
  \/ ChainBuild(p)
  \/ WrapLayout(p)
  \/ CacheStore(p)
  \/ Emit(p)
  \/ Finish(p)

(***************************************************************************)
(* The calls of the model.                                                 *)
(***************************************************************************)
\* "page" with two bindings that the templates print differently, with and
\* without a locale in the context; with a struct, which every layout can
\* be executed with, under every layout list; a layout, a base template
\* and a lookup that fail; "page" under the default locale; and a sink that
\* fails; and a list with two unregistered layouts after a registered one
Calls ==
  Args({"fr", "none"}, {"page"}, {StrB("a")}, {<< >>, <<"L1">>}, {"ok"})
  \cup Args({"fr"}, {"page"}, {BytesB("a")}, {<< >>, <<"L1">>}, {"ok"})
  \cup Args({"fr"}, {"page"}, {StructB("J")},
            {<< >>, <<"L1", "L2">>, <<"L2", "L1">>, <<"nolayout">>}, {"ok"})
  \cup Args({"fr"}, {"page", "form", "missing"}, {StrB("a")},
            {<<"L1", "L2">>}, {"ok"})
  \cup Args({"en"}, {"page"}, {StrB("a")}, {<< >>}, {"ok"})
  \cup Args({"fr"}, {"page"}, {StructB("J")}, {<<"L1", "L2">>}, {"fail"})
  \cup Args({"fr"}, {"page"}, {StructB("J")},
            {<<"L1", "nolayout", "nope">>}, {"ok"})

\* the calls that goroutines make concurrently
ConcurrentCalls ==
  Args({"fr"}, {"page"}, {StructB("J")},
       {<< >>, <<"L1", "L2">>, <<"nolayout">>}, {"ok"})
  \cup Args({"fr"}, {"page"}, {StrB("a")}, {<<"L1", "L2">>}, {"ok"})

\* one caller at a time: a call starts when no other call is running
NoneRunning == \A q \in Procs : g[q].pc = "idle"

\* the goroutine that makes the calls when they are made one after another
Caller == 1

Next ==
  \/ \E a \in Calls : NoneRunning /\ RenderEnter(Caller, a)
  \/ Step(Caller)

Spec == Init /\ [][Next]_vars

\* the calls made through RenderString and RenderHTML, and through Render
\* for comparison: a render with layouts that succeeds, one whose second
\* layout fails, a template and a layout that are not registered, a sink
\* that fails, and a binding of every kind the key is computed from
WrapperCalls ==
  Args({"fr"}, {"page"}, {StructB("J"), StrB("a")}, {<<"L1", "L2">>}, {"ok"})
  \cup Args({"fr"}, {"missing"}, {StrB("a")}, {<< >>}, {"ok"})
  \cup Args({"fr"}, {"page"}, {StructB("J")}, {<<"nolayout">>}, {"ok"})

HTMLCalls ==
  Args({"fr"}, {"page", "missing"}, {StructB("J")}, {<<"L1", "L2">>}, {"ok"})

ApiCalls ==
  WrapperCalls
  \cup Args({"fr"}, {"page"}, {StructB("J")}, {<<"L1", "L2">>}, {"fail"})
  \cup Args({"fr"}, {"page"}, {StringerB("a"), NilStringerB, OpaqueB},
            {<< >>}, {"ok"})

\* one caller at a time, through any of the three methods
NextApi ==
  \/ \E a \in ApiCalls : NoneRunning /\ RenderEnter(Caller, a)
  \/ \E a \in WrapperCalls :
       NoneRunning /\ RenderStringEnter(Caller, "RenderString", a)
  \/ \E a \in HTMLCalls :
       NoneRunning /\ RenderStringEnter(Caller, "RenderHTML", a)
  \/ RenderCall(Caller)
  \/ RenderStringReturn(Caller)
  \/ Step(Caller)

SpecApi == Init /\ [][NextApi]_vars

(***************************************************************************)
(* Engine.GetFuncMap and what its caller does with the map.                *)
(***************************************************************************)
\* e.funcMap of the engine New returned
FuncMapOf == IF DOMAIN funcMaps = {} THEN NilMap ELSE EngineFuncMap

\* return e.funcMap under the read lock: the caller holds the reference
\* the engine holds
GetFuncMap(p) ==
  /\ ~engineNil
  /\ FuncMapOf # NilMap
  /\ fm[p] = NilMap
  /\ fm' = [fm EXCEPT ![p] = FuncMapOf]
  /\ UNCHANGED << root, newErr, engineNil, templates, hardCache,
                  layoutCacheEnable, commonLayouts, eLayouts, funcMaps,
                  cache, layoutCache, bufferPool, buffers, g, origin,
                  history >>
  /\ mu' = RUnlock(RLock(mu, p), p)

\* the functions a caller writes into the map it got
CallerFuncs == {"T", "mine"}

\* m[name] = fn on the map the caller got
MutateReturned(p, name) ==
  /\ fm[p] # NilMap
  /\ ~(name \in DOMAIN funcMaps[fm[p]] /\ funcMaps[fm[p]][name] = "caller")
  /\ funcMaps' = [funcMaps EXCEPT ![fm[p]] = (name :> "caller") @@ @]
  /\ UNCHANGED << root, newErr, engineNil, templates, hardCache,
                  layoutCacheEnable, commonLayouts, eLayouts, mu, fm, cache,
                  layoutCache, bufferPool, buffers, g, origin, history >>

\* the render made while callers inspect the function map
FuncMapCalls ==
  Args({"fr"}, {"page"}, {StructB("J")}, {<<"L1", "L2">>}, {"ok"})

NextFuncs ==
  \/ \E p \in Procs : GetFuncMap(p)
  \/ \E p \in Procs, name \in CallerFuncs : MutateReturned(p, name)
  \/ \E a \in FuncMapCalls : NoneRunning /\ RenderEnter(Caller, a)
  \/ Step(Caller)

SpecFuncs == Init /\ [][NextFuncs]_vars

\* goroutines call at any time
NextConc ==
  \/ \E p \in Procs, a \in ConcurrentCalls : RenderEnter(p, a)
  \/ \E p \in Procs : Step(p)

SpecConc == Init /\ [][NextConc]_vars

(***************************************************************************)
(* Concurrent first renders of one template by goroutines whose bindings   *)
(* differ.                                                                 *)
(***************************************************************************)
RaceCalls ==
  Args({"fr"}, {"page"}, {StructB("J"), StrB("a")}, {<< >>, <<"L1">>},
       {"ok"})

NextRace ==
  \/ \E p \in Procs, a \in RaceCalls : RenderEnter(p, a)
  \/ \E p \in Procs : Step(p)

SpecRace == Init /\ [][NextRace]_vars

(***************************************************************************)
(* Goroutines that call Render and RenderString concurrently on a          *)
(* soft-cache engine built from the templates directory.  RenderHTML is    *)
(* RenderString but for the type of its result.                            *)
(***************************************************************************)
PoolCalls == Args({"fr"}, {"page"}, {StructB("J")}, {<<"L1">>}, {"ok"})

NextPool ==
  \/ \E p \in Procs, a \in PoolCalls : RenderEnter(p, a)
  \/ \E p \in Procs, a \in PoolCalls : RenderStringEnter(p, "RenderString", a)
  \/ \E p \in Procs : RenderCall(p)
  \/ \E p \in Procs : RenderStringReturn(p)
  \/ \E p \in Procs : Step(p)

InitPool == Init /\ root = "templates" /\ ~hardCache

SpecPool == InitPool /\ [][NextPool]_vars

(***************************************************************************)
(* Calls made one after another on engines built with and without the     *)
(* WithLayouts option; the option may name layouts that are not            *)
(* registered.                                                             *)
(***************************************************************************)
LayoutOptions == {<< >>, <<"L1", "L2">>, <<"L1", "nolayout">>}

LayoutCalls ==
  Args({"fr"}, {"page"}, {StructB("J"), StrB("a")},
       {<< >>, <<"L1", "L2">>, <<"nolayout">>}, {"ok"})

InitLayouts == InitWith(LayoutOptions)

NextLayouts ==
  \/ \E a \in LayoutCalls : NoneRunning /\ RenderEnter(Caller, a)
  \/ Step(Caller)

SpecLayouts == InitLayouts /\ [][NextLayouts]_vars

(***************************************************************************)
(* Calls made one after another by a goroutine that keeps running: a step  *)
(* of Render that is enabled is taken, since every template execution and  *)
(* every write to the sink is taken to return.                             *)
(***************************************************************************)
LiveCalls ==
  Args({"fr"}, {"page", "form"}, {StrB("a"), StructB("J")},
       {<<"L1", "L2">>}, {"ok"})
  \cup Args({"fr"}, {"page"}, {StructB("J")}, {<<"L1", "L2">>}, {"fail"})
  \cup Args({"fr"}, {"page"}, {StructB("J")}, {<<"nolayout">>}, {"ok"})

NextLive ==
  \/ \E a \in LiveCalls : NoneRunning /\ RenderEnter(Caller, a)
  \/ Step(Caller)

SpecLive == Init /\ [][NextLive]_vars /\ WF_vars(Step(Caller))

(***************************************************************************)
(* Calls made one after another with names and bindings of other shapes:   *)
(* a layout whose name holds the separator of the keys, a layout used as   *)
(* the base template, the templates of a file with a {{define}} block and  *)
(* of a file in a subdirectory, pointers to equal values and maps with     *)
(* equal entries.                                                          *)
(***************************************************************************)
EdgeCalls ==
  Args({"fr"}, {"page", "form"}, {StructB("J")},
       {<<"L1", "L2">>, <<"L1:L2">>}, {"ok"})
  \cup Args({"fr"}, {"page"},
            {PtrB("7", "0xc000012340"), PtrB("7", "0xc000012348"),
             MapB("1:a 2:b", "12"), MapB("1:a 2:b", "21")},
            {<< >>}, {"ok"})
  \cup Args({"fr"}, {"L2"}, {StrB("a")}, {<< >>}, {"ok"})
  \cup Args({"fr"}, {"page"}, {StrB("a")}, {<<"L2">>}, {"ok"})
  \cup Args({"fr"}, {"partials", "partials.gohtml", "header", "mail/welcome",
                     "notes"},
            {StrB("a")}, {<< >>}, {"ok"})

NextEdge ==
  \/ \E a \in EdgeCalls : NoneRunning /\ RenderEnter(Caller, a)
  \/ Step(Caller)

SpecEdge == Init /\ [][NextEdge]_vars

(***************************************************************************)
(* Reference semantics used by the properties: what executing the          *)
(* templates of a call yields, without cache, pool or buffers.             *)
(***************************************************************************)
Registered(name) == name \in DOMAIN templates

\* the base template executed directly with the binding
DirectBase(a) ==
  Execute(templates[a.name], 1, a.binding, Funcs(a.ctx, ""), "")

\* layouts k .. n applied in order to the result r
RECURSIVE RefWrap(_, _, _)
RefWrap(a, k, r) ==
  IF ~r.ok \/ k > Len(a.layouts) THEN r
  ELSE RefWrap(a, k + 1,
         Execute(templates[a.layouts[k]], 1, a.binding,
                 Funcs(a.ctx, r.buf), ""))

Failed == [buf |-> "", ok |-> FALSE]

\* the result of the whole composition; buf is "" when it fails
Reference(a) ==
  IF ~Registered(a.name) \/ \E k \in 1 .. Len(a.layouts) : ~Registered(a.layouts[k])
  THEN Failed
  ELSE LET r == RefWrap(a, 1, DirectBase(a))
       IN IF r.ok THEN r ELSE Failed

Returned == 1 .. Len(history)

SameTarget(x, y) ==
  /\ LocaleOf(x.ctx) = LocaleOf(y.ctx)
  /\ x.name = y.name
  /\ x.layouts = y.layouts

Initialized == ~engineNil /\ templates # NoTemplates

(***************************************************************************)
(* Properties.                                                             *)
(***************************************************************************)

\* C1: in soft-cache mode, a call that is served the entry stored by a call
\* with the same locale, name and layouts but another binding still gets
\* the output of executing the templates with its own binding.
C1_OtherBindingGetsOwnOutput ==
  \A i \in Returned :
    LET h == history[i] IN
    (/\ ~hardCache
     /\ h.hit
     /\ h.err = NoError
     /\ SameTarget(origin[h.cacheKey], h)
     /\ origin[h.cacheKey].binding # h.binding)
    => (Reference(ArgsOf(h)).ok /\ h.out = Reference(ArgsOf(h)).buf)

\* C2: in hard-cache mode, once a call for (locale, name, layouts) has
\* succeeded, every later call for the same (locale, name, layouts)
\* succeeds with the same bytes, whatever its binding.
C2_HardCacheSameTargetSameBytes ==
  hardCache =>
    \A i, j \in Returned :
      (/\ i < j
       /\ history[i].err = NoError
       /\ SameTarget(history[i], history[j])
       /\ history[j].sink = "ok")
      => (history[j].err = NoError /\ history[j].out = history[i].out)

\* C2 happens: hard mode, two bindings whose direct outputs differ, the
\* second call answered with the first call's bytes.
C2_Witness ==
  /\ hardCache
  /\ \E i, j \in Returned :
       /\ i < j
       /\ history[i].err = NoError
       /\ history[j].err = NoError
       /\ SameTarget(history[i], history[j])
       /\ history[i].binding # history[j].binding
       /\ Reference(ArgsOf(history[j])).buf # Reference(ArgsOf(history[i])).buf
       /\ history[j].out = history[i].out

\* C3: in soft-cache mode, a call followed by a call with the same locale,
\* name, layouts and binding: both return the same bytes.
C3_SoftCacheIdempotent ==
  ~hardCache =>
    \A i, j \in Returned :
      (/\ j = i + 1
       /\ SameTarget(history[i], history[j])
       /\ history[i].binding = history[j].binding
       /\ history[i].sink = history[j].sink)
      => (history[j].out = history[i].out /\ history[j].err = history[i].err)

\* C3 happens: the second of two identical calls with layouts is a hit.
C3_Witness ==
  /\ ~hardCache
  /\ \E i, j \in Returned :
       /\ j = i + 1
       /\ ArgsOf(history[i]) = ArgsOf(history[j])
       /\ Len(history[i].layouts) = 2
       /\ history[i].err = NoError
       /\ ~history[i].hit
       /\ history[j].hit
       /\ history[j].out = history[i].out
       /\ history[j].out # ""

\* every call started so far is the same call
SameRender ==
  \A x, y \in {ArgsOf(history[i]) : i \in Returned}
              \cup {ArgsOf(g[p]) : p \in {q \in Procs : g[q].pc # "idle"}} :
    x = y

\* C4: when the callers all run the same Render concurrently, every call
\* that returns has received exactly the output of that render, complete
\* and with nothing else, or has failed with nothing written when the
\* render fails.
C4_ConcurrentSameRenderCorrect ==
  SameRender =>
    \A i \in Returned :
      LET h == history[i]
          ref == Reference(ArgsOf(h))
      IN IF Initialized /\ ref.ok
         THEN h.err = NoError /\ h.out = ref.buf
         ELSE h.err # NoError /\ h.out = ""

\* C4 happens: two goroutines were executing the same render with layouts
\* at the same time, each in its own buffer, and both returned its output.
C4_Witness ==
  /\ SameRender
  /\ Len(history) = 2
  /\ \A i \in Returned :
       /\ ~history[i].hit
       /\ history[i].err = NoError
       /\ Len(history[i].trace) = 3
       /\ history[i].out = Reference(ArgsOf(history[i])).buf

\* C5: a call that returned an error of the pipeline has written nothing
\* to its sink.
C5_FailedRenderWritesNothing ==
  \A i \in Returned :
    (history[i].err # NoError /\ history[i].err # ErrSink)
    => history[i].out = ""

\* C5 happens: a layout failed after the base and an earlier layout had
\* produced output and the failing layout had written part of its own.
C5_Witness ==
  \E i \in Returned :
    LET h == history[i] IN
    /\ "ErrTemplateExecutionFailed" \in h.err.is
    /\ Len(h.trace) = 3
    /\ ~h.trace[3].ok
    /\ h.trace[3].after # ""
    /\ h.out = ""

\* C6: a call whose template name is not registered and that is not served
\* from the cache returns the template-not-found error carrying the name,
\* writes nothing and executes no template.
C6_MissingNameNotFound ==
  \A i \in Returned :
    LET h == history[i] IN
    (Initialized /\ ~Registered(h.name) /\ ~h.hit)
    => (/\ "ErrTemplateNotFound" \in h.err.is
        /\ h.err.msg = "template not found\ntemplate: " \o h.name
        /\ h.out = ""
        /\ h.trace = << >>)

\* C6 happens: a call for "missing" returned.
C6_Witness ==
  \E i \in Returned :
    /\ Initialized
    /\ history[i].name = "missing"
    /\ Len(history[i].layouts) = 2
    /\ "ErrTemplateNotFound" \in history[i].err.is

\* the first layout of the list that is not registered
FirstMissing(layouts) ==
  layouts[Min({k \in 1 .. Len(layouts) : ~Registered(layouts[k])})]

\* C7: a call with a registered template whose layout list holds an
\* unregistered layout returns the layout-not-found error and writes
\* nothing, although the base template was executed successfully.
C7_MissingLayoutNotFound ==
  \A i \in Returned :
    LET h == history[i] IN
    (/\ Initialized
     /\ Registered(h.name)
     /\ DirectBase(ArgsOf(h)).ok
     /\ \E k \in 1 .. Len(h.layouts) : ~Registered(h.layouts[k])
     /\ ~h.hit)
    => (/\ h.err.msg = "layout not found: " \o FirstMissing(h.layouts)
        /\ h.out = ""
        /\ Len(h.trace) = 1
        /\ h.trace[1].ok
        /\ h.trace[1].after = DirectBase(ArgsOf(h)).buf)

\* C7 happens: "page" was executed, then the layout was not found.
C7_Witness ==
  \E i \in Returned :
    /\ history[i].name = "page"
    /\ history[i].layouts = <<"nolayout">>
    /\ history[i].err.msg = "layout not found: nolayout"
    /\ Len(history[i].trace) = 1
    /\ history[i].trace[1].after # ""
    /\ history[i].out = ""

\* C8: on a nil or zero-value Engine, Render returns the not-initialized
\* error at once: no goroutine gets past the guard, no cache is probed or
\* filled, no buffer is taken, no template is looked up or executed and
\* nothing is written.
C8_UninitializedGuardFirst ==
  ~Initialized =>
    /\ \A p \in Procs : g[p].pc \in {"idle", "done"} /\ g[p].buf = NoBuf
    /\ bufferPool = {}
    /\ cache = << >>
    /\ layoutCache = << >>
    /\ \A i \in Returned :
         /\ history[i].err.is = {"ErrTemplateEngineNotInitialized"}
         /\ history[i].out = ""
         /\ ~history[i].hit
         /\ history[i].trace = << >>
         /\ history[i].cacheKey = ""

\* C8 happens: Render returned twice on an Engine without registry.
C8_Witness ==
  /\ templates = NoTemplates
  /\ Len(history) = 2
  /\ history[2].err = ErrTemplateEngineNotInitialized

\* C9 as stated: with a registered name and no layouts, the output is that
\* of executing the base template directly with the binding.
C9_EmptyLayoutsEqualsDirect ==
  \A i \in Returned :
    LET h == history[i] IN
    (/\ Initialized
     /\ Registered(h.name)
     /\ h.layouts = << >>
     /\ h.err = NoError)
    => h.out = DirectBase(ArgsOf(h)).buf

\* C9 amended: with a registered name and no layouts, a call that is not
\* served from the render cache succeeds exactly when the direct execution
\* does, its output is then that of the direct execution, the chain is
\* empty and only the base template is executed.
C9_EmptyLayoutsEqualsDirectOnMiss ==
  \A i \in Returned :
    LET h == history[i]
        d == DirectBase(ArgsOf(h))
    IN (/\ Initialized
        /\ Registered(h.name)
        /\ h.layouts = << >>
        /\ ~h.hit)
       => (/\ (h.err = NoError) = (d.ok /\ h.sink = "ok")
           /\ h.err = NoError => h.out = d.buf
           /\ h.chain = << >>
           /\ Len(h.trace) = 1
           /\ h.trace[1].tmpl = h.name)

\* C9 happens: a second call, on a buffer taken back from the pool with the
\* first call's bytes in it, returned the direct output.
C9_Witness ==
  \E i \in Returned :
    LET h == history[i] IN
    /\ i = 2
    /\ h.layouts = << >>
    /\ ~h.hit
    /\ h.err = NoError
    /\ h.out = DirectBase(ArgsOf(h)).buf
    /\ ~history[1].hit
    /\ history[1].err = NoError
    /\ bufferPool # {}
    /\ \A b \in bufferPool : buffers[b] = h.out

\* C10 as stated: with layouts [L1..Ln] the output is Ln's output, each
\* layout having received the output of the step before it.
C10_OutputIsLastLayoutOutput ==
  \A i \in Returned :
    LET h == history[i] IN
    (Initialized /\ h.layouts # << >> /\ h.err = NoError)
    => h.out = Reference(ArgsOf(h)).buf

Reverse(s) == [k \in 1 .. Len(s) |-> s[Len(s) + 1 - k]]

\* C10 amended: in a call that is not served from the render cache, the
\* executions are the base and then the layouts in list order, layout k
\* starts on an empty buffer with embed returning exactly the output of
\* the step before it, and the output of a successful call is the last
\* layout's output; two such calls that differ only in the order of two
\* layouts return different bytes.
C10_LayoutsWrapInOrderOnMiss ==
  /\ \A i \in Returned :
       LET h == history[i] IN
       (Initialized /\ h.layouts # << >> /\ ~h.hit)
       => (/\ \A k \in 2 .. Len(h.trace) :
                /\ h.trace[k - 1].ok
                /\ h.trace[k].tmpl = h.layouts[k - 1]
                /\ h.trace[k].before = ""
                /\ h.trace[k].embed = h.trace[k - 1].after
           /\ h.err = NoError =>
                /\ Len(h.trace) = Len(h.layouts) + 1
                /\ h.out = h.trace[Len(h.trace)].after
                /\ h.out = Reference(ArgsOf(h)).buf)
  /\ \A i, j \in Returned :
       (/\ history[i].err = NoError /\ history[j].err = NoError
        /\ ~history[i].hit /\ ~history[j].hit
        /\ history[i].ctx = history[j].ctx
        /\ history[i].name = history[j].name
        /\ history[i].binding = history[j].binding
        /\ Len(history[i].layouts) = 2
        /\ history[i].layouts[1] # history[i].layouts[2]
        /\ history[j].layouts = Reverse(history[i].layouts))
       => history[i].out # history[j].out

\* C10 happens: [L1, L2] and [L2, L1] were both rendered.
C10_Witness ==
  \E i, j \in Returned :
    /\ history[i].layouts = <<"L1", "L2">>
    /\ history[j].layouts = <<"L2", "L1">>
    /\ history[i].binding = history[j].binding
    /\ history[i].err = NoError /\ history[j].err = NoError
    /\ ~history[i].hit /\ ~history[j].hit
    /\ history[i].trace[3].embed = history[i].trace[2].after
    /\ history[i].out # history[j].out

\* C11: a call served the entry stored by a call with the same name,
\* layouts and binding but another locale in its context still gets the
\* output rendered with the translations of its own context.
C11_OtherLocaleGetsOwnTranslations ==
  \A i \in Returned :
    LET h == history[i] IN
    (/\ h.hit
     /\ h.err = NoError
     /\ origin[h.cacheKey].name = h.name
     /\ origin[h.cacheKey].layouts = h.layouts
     /\ origin[h.cacheKey].binding = h.binding
     /\ origin[h.cacheKey].ctx # h.ctx)
    => h.out = Reference(ArgsOf(h)).buf

\* C12 as stated: every value in the render cache is the complete output of
\* the composition of the call that stored it, and no call that stored a
\* value returned an error.
C12_OnlySucceededCallsStored ==
  /\ \A k \in DOMAIN cache :
       Reference(origin[k]).ok /\ cache[k] = Reference(origin[k]).buf
  /\ \A i \in Returned : history[i].stored => history[i].err = NoError

\* C12 amended: every value in the render cache is the complete output of
\* the composition of the call that stored it; a call stores only after
\* the base and every layout of its list were executed successfully, so a
\* call that stored returns no error but that of its sink, and a call
\* whose lookup or execution failed has stored nothing.
C12_OnlyCompleteOutputStored ==
  /\ \A k \in DOMAIN cache :
       Reference(origin[k]).ok /\ cache[k] = Reference(origin[k]).buf
  /\ \A i \in Returned :
       LET h == history[i] IN
       /\ h.stored =>
            /\ h.err \in {NoError, ErrSink}
            /\ Len(h.trace) = Len(h.layouts) + 1
            /\ \A k \in 1 .. Len(h.trace) : h.trace[k].ok
            /\ h.content = Reference(ArgsOf(h)).buf
       /\ (h.err # NoError /\ h.err # ErrSink) => ~h.stored
       /\ h.hit => ~h.stored

\* C12 happens: a call whose second layout failed on a partly written
\* buffer stored nothing, and a call whose sink failed left its complete
\* output in the cache.
C12_Witness ==
  \E i, j \in Returned :
    /\ "ErrTemplateExecutionFailed" \in history[i].err.is
    /\ Len(history[i].trace) = 3
    /\ history[i].trace[3].after # ""
    /\ ~history[i].stored
    /\ history[i].cacheKey \notin DOMAIN cache
    /\ history[j].err = ErrSink
    /\ history[j].stored
    /\ history[j].out = ""
    /\ cache[history[j].cacheKey] = Reference(ArgsOf(history[j])).buf

\* C13: a call whose key is in the render cache when it probes writes
\* exactly the cached bytes to its sink and returns in that step, with the
\* error of the write as its result: it takes no buffer, looks up and
\* executes no template, resolves no chain and leaves both caches as they
\* are.
C13_HitWritesCachedBytesOnly ==
  [][\A p \in Procs :
       (/\ g[p].pc = "probe"
        /\ g[p].cacheKey \in DOMAIN cache
        /\ g'[p] # g[p])
       => LET w == WriteString(g[p].out, g[p].sink, cache[g[p].cacheKey]) IN
          /\ g'[p].pc = "done"
          /\ g'[p].hit
          /\ g'[p].out = w.out
          /\ g'[p].err = w.err
          /\ g'[p].buf = NoBuf
          /\ g'[p].trace = << >>
          /\ g'[p].chain = << >>
          /\ ~g'[p].stored
          /\ UNCHANGED << cache, layoutCache, bufferPool, buffers >>]_vars

\* C13 happens: a call was served the output a call with two layouts had
\* stored, and executed nothing.
C13_Witness ==
  /\ Len(history) = 2
  /\ Len(history[1].trace) = 3
  /\ history[1].stored
  /\ history[2].hit
  /\ history[2].trace = << >>
  /\ history[2].out = cache[history[2].cacheKey]
  /\ history[2].out # ""

\* C14: the chain cache holds only complete chains of registered layouts
\* under the key of their list; a call whose resolution met an
\* unregistered layout returned the error naming the first such layout of
\* its list, got no chain, executed no layout, and left no entry for its
\* list in the chain cache.
C14_ChainResolutionAtomic ==
  /\ \A k \in DOMAIN layoutCache :
       /\ k = Join(layoutCache[k], ":")
       /\ \A n \in 1 .. Len(layoutCache[k]) : Registered(layoutCache[k][n])
  /\ \A i \in Returned :
       LET h == history[i] IN
       (/\ Initialized
        /\ ~h.hit
        /\ Registered(h.name)
        /\ DirectBase(ArgsOf(h)).ok
        /\ \E n \in 1 .. Len(h.layouts) : ~Registered(h.layouts[n]))
       => (/\ h.err = LayoutNotFound(FirstMissing(h.layouts))
           /\ h.chain = << >>
           /\ Len(h.trace) = 1
           /\ Join(h.layouts, ":") \notin DOMAIN layoutCache)

\* C14 happens: with the chain cache on, a list whose first layout is
\* registered and whose second and third are not was resolved and left
\* nothing, while the chain of another list was stored.
C14_Witness ==
  /\ layoutCacheEnable
  /\ \E i, j \in Returned :
       /\ history[i].layouts = <<"L1", "nolayout", "nope">>
       /\ history[i].err.msg = "layout not found: nolayout"
       /\ history[i].chain = << >>
       /\ "L1:nolayout:nope" \notin DOMAIN layoutCache
       /\ history[j].layouts = <<"L1", "L2">>
       /\ "L1:L2" \in DOMAIN layoutCache

\* C16: New returns a nil engine and an error exactly when the root is
\* empty, the directory does not exist, no template was parsed or a
\* template file does not compile; otherwise it returns a usable engine and
\* no error.
C16_NewFailsOrReturnsUsableEngine ==
  root \in Roots =>
    LET files == ValidExt(root)
        fatal == \/ root = ""
                 \/ ~DirExists(root)
                 \/ files = {}
                 \/ \E f \in files : f.err # ""
    IN IF fatal
       THEN engineNil /\ newErr # NoError
       ELSE ~engineNil /\ newErr = NoError /\ templates # NoTemplates

(***************************************************************************)
(* Render as a function of its arguments and of the render cache it        *)
(* finds, for calls made one after another.                                *)
(***************************************************************************)
\* the error of the first layout from k on whose execution fails
RECURSIVE RefError(_, _, _)
RefError(a, k, r) ==
  IF k > Len(a.layouts) THEN NoError
  ELSE LET x == Execute(templates[a.layouts[k]], 1, a.binding,
                        Funcs(a.ctx, r.buf), "")
       IN IF x.ok THEN RefError(a, k + 1, x)
          ELSE ExecutionFailed(a.layouts[k])

Nothing(err) == [out |-> "", err |-> err]

\* what Render writes to an empty sink and returns
RenderWould(a, c) ==
  IF ~Initialized THEN Nothing(ErrTemplateEngineNotInitialized)
  ELSE IF StringPanics(a.binding)
  THEN Nothing(Panic("value method called using nil pointer"))
  ELSE LET k == generateCacheKey(hardCache, LocaleOf(a.ctx), a.name,
                                 a.binding, a.layouts)
       IN IF k \in DOMAIN c THEN WriteString("", a.sink, c[k])
          ELSE IF ~Registered(a.name) THEN Nothing(TemplateNotFound(a.name))
          ELSE IF ~DirectBase(a).ok THEN Nothing(ExecutionFailed(a.name))
          ELSE IF \E n \in 1 .. Len(a.layouts) : ~Registered(a.layouts[n])
          THEN Nothing(LayoutNotFound(FirstMissing(a.layouts)))
          ELSE IF RefError(a, 1, DirectBase(a)) # NoError
          THEN Nothing(RefError(a, 1, DirectBase(a)))
          ELSE WriteString("", a.sink, Reference(a).buf)

\* the render cache as call number i found it: what the calls before it
\* stored
CacheBefore(i) ==
  LET S == {j \in 1 .. i - 1 : history[j].stored}
  IN [k \in {history[j].cacheKey : j \in S} |->
        history[CHOOSE j \in S : history[j].cacheKey = k].content]

\* the chain cache as call number i found it
ChainsBefore(i) ==
  LET S == {j \in 1 .. i - 1 : layoutCacheEnable /\ history[j].chain # << >>}
  IN [k \in {Join(history[j].layouts, ":") : j \in S} |->
        history[CHOOSE j \in S : Join(history[j].layouts, ":") = k].chain]

\* C15: RenderString and RenderHTML return exactly the bytes Render writes
\* for the same arguments on the same engine state, as a string and as
\* template.HTML, and the empty value with the error of Render when Render
\* fails; Render and the two methods are compared with the same function of
\* the arguments and of the render cache the call found.
C15_WrappersReturnWhatRenderWrites ==
  \A i \in Returned :
    LET h == history[i]
        w == RenderWould(ArgsOf(h), CacheBefore(i))
    IN IF h.api = "Render"
       THEN h.out = w.out /\ h.err = w.err
       ELSE /\ h.result.v = w.out
            /\ h.result.type = ResultType(h.api)
            /\ h.err = w.err
            /\ h.err # NoError => h.result.v = ""

\* C15 happens: RenderString rendered a page with two layouts into a buffer
\* taken from the pool, and RenderHTML was then served the same bytes from
\* the render cache.
C15_Witness ==
  /\ Len(history) = 2
  /\ history[1].api = "RenderString"
  /\ ~history[1].hit
  /\ history[1].result = [type |-> "string", v |-> Reference(ArgsOf(history[1])).buf]
  /\ Len(history[1].layouts) = 2
  /\ history[2].api = "RenderHTML"
  /\ history[2].hit
  /\ history[2].result = [type |-> "template.HTML", v |-> history[1].result.v]
  /\ history[2].result.v # ""

\* C17: on a usable engine no call ends in a panic and every call has its
\* render-cache key, whatever the binding.
C17_KeyComputationNeverFails ==
  \A i \in Returned :
    Initialized =>
      /\ "panic" \notin history[i].err.is
      /\ history[i].cacheKey # ""

\* a call failed with template not found or layout not found
IsNotFound(h) ==
  \/ h.err = TemplateNotFound(h.name)
  \/ \E n \in 1 .. Len(h.layouts) : h.err = LayoutNotFound(h.layouts[n])

\* C18: when a call has returned template not found or layout not found,
\* the render cache and the chain cache hold exactly what the calls before
\* it stored, and the registry is the one New built.
C18_NotFoundLeavesEngineUnchanged ==
  \A p \in Procs :
    (g[p].pc = "done" /\ IsNotFound(g[p]))
    => (/\ history[Len(history)] = g[p]
        /\ cache = CacheBefore(Len(history))
        /\ layoutCache = ChainsBefore(Len(history))
        /\ templates = Walk(root).tmpl)

\* C18 happens: with entries in both caches, a call executed its base
\* template and then failed on an unregistered layout.
C18_Witness ==
  \E p \in Procs :
    /\ g[p].pc = "done"
    /\ g[p].err = LayoutNotFound("nolayout")
    /\ Len(g[p].trace) = 1
    /\ Len(history) = 2
    /\ DOMAIN cache = {history[1].cacheKey}
    /\ DOMAIN layoutCache = {"L1:L2"}

\* the Get calls a call makes: one for the sink of RenderString and
\* RenderHTML, one for the working buffer of a Render that gets past the
\* guard, the key and the cache probe
ExpectedGets(h) ==
  (IF h.api = "Render" THEN 0 ELSE 1)
  + (IF Initialized /\ ~StringPanics(h.binding) /\ ~h.hit THEN 1 ELSE 0)

\* C19: a call that has returned holds no buffer and has made as many Put
\* calls as Get calls, on every path; no buffer is in the pool while a
\* call holds it.
C19_BuffersReturnedOnce ==
  /\ \A p \in Procs :
       g[p].pc \in {"idle", "done"} => g[p].buf = NoBuf /\ g[p].obuf = NoBuf
  /\ bufferPool \cap Held = {}
  /\ \A i \in Returned :
       /\ history[i].gets = ExpectedGets(history[i])
       /\ history[i].puts = history[i].gets

\* C19 happens: RenderString failed in its second layout holding two
\* buffers, and Render failed on the write to its sink.
C19_Witness ==
  \E i, j \in Returned :
    /\ history[i].api = "RenderString"
    /\ "ErrTemplateExecutionFailed" \in history[i].err.is
    /\ history[i].gets = 2
    /\ history[i].puts = 2
    /\ history[j].api = "Render"
    /\ history[j].err = ErrSink
    /\ history[j].puts = 1
    /\ Held = {}
    /\ bufferPool # {}

\* C20: whatever callers do with the maps GetFuncMap returned, the map of
\* the engine holds the default functions and those added by the options,
\* which is also what a later GetFuncMap returns.
C20_GetFuncMapReturnsCopy ==
  FuncMapOf # NilMap => funcMaps[FuncMapOf] = InitialFuncs


(***************************************************************************)
(* C21: over any sequence of Render calls, concurrent ones included, the   *)
(* render cache and the chain cache only gain entries: a key that either   *)
(* cache holds before a step is still held after it.                       *)
(***************************************************************************)
C21_CachesOnlyGainEntries ==
  [][/\ DOMAIN cache \subseteq DOMAIN cache'
     /\ DOMAIN layoutCache \subseteq DOMAIN layoutCache']_vars

\* both caches were written, the render cache under two keys
C21_Witness ==
  /\ Cardinality(DOMAIN cache) >= 2
  /\ DOMAIN layoutCache # {}


\* a call that got as far as resolving the chain of a non-empty list of
\* registered layouts
Resolved(h) ==
  /\ Initialized
  /\ ~h.hit
  /\ Len(h.trace) >= 1
  /\ h.trace[1].ok
  /\ h.layouts # << >>
  /\ \A k \in 1 .. Len(h.layouts) : Registered(h.layouts[k])

\* C22: a call that resolved the chain of a non-empty list of registered
\* layouts, from the chain cache or freshly, got one template per name of
\* its list, the k-th being the one registered under the k-th name; the
\* entry the chain cache holds under the key of the list is that chain,
\* and two different lists never have one key.
C22_ChainMatchesRequestedNames ==
  /\ \A i \in Returned :
       LET h == history[i] IN
       Resolved(h)
       => (/\ Len(h.chain) = Len(h.layouts)
           /\ \A k \in 1 .. Len(h.layouts) : h.chain[k] = h.layouts[k]
           /\ layoutCacheEnable
                => layoutCache[Join(h.layouts, ":")] = h.layouts)
  /\ \A i, j \in Returned :
       (Resolved(history[i]) /\ Resolved(history[j])
        /\ history[i].layouts # history[j].layouts)
       => Join(history[i].layouts, ":") # Join(history[j].layouts, ":")


\* two bindings of one type that are equal by value, whatever objects hold
\* them
EqualByValue(x, y) == x.kind = y.kind /\ x.v = y.v

\* C23: in soft-cache mode, two calls with the same locale, name and
\* layouts whose bindings are equal by value get the same render-cache
\* key, also when the bindings are distinct objects.
C23_EqualBindingsSameKey ==
  ~hardCache =>
    \A i, j \in Returned :
      (/\ Initialized
       /\ SameTarget(history[i], history[j])
       /\ EqualByValue(history[i].binding, history[j].binding))
      => history[i].cacheKey = history[j].cacheKey


\* C24: in a call that misses the render cache, the step that stores is
\* taken only when the base template and every layout of the list have
\* been executed successfully, it puts the final content under the key of
\* the call and happens while nothing has been written to the sink; the
\* write to the sink comes after the store, and its error, or nil, is what
\* Render returns.
C24_StoreAfterExecutionBeforeWrite ==
  [][\A p \in Procs :
       /\ (~g[p].stored /\ g'[p].stored)
          => (/\ ~g[p].hit
              /\ Len(g[p].trace) = Len(g[p].layouts) + 1
              /\ \A k \in 1 .. Len(g[p].trace) : g[p].trace[k].ok
              /\ cache'[g[p].cacheKey] = g[p].content
              /\ g[p].content = g[p].trace[Len(g[p].trace)].after
              /\ g[p].out = ""
              /\ g'[p].out = ""
              /\ g'[p].pc = "emit")
       /\ (g[p].pc = "emit" /\ g'[p] # g[p])
          => LET w == WriteString("", g[p].sink, g[p].content) IN
             /\ g[p].stored
             /\ g[p].cacheKey \in DOMAIN cache
             /\ g'[p].pc = "done"
             /\ g'[p].out = w.out
             /\ g'[p].err = w.err
       /\ (g'[p].pc = "done" /\ g[p].pc # "done" /\ ~g'[p].hit
           /\ g[p].pc # "emit")
          => (g'[p].out = "" /\ ~g'[p].stored /\ g'[p].err # NoError)]_vars

\* C24 happens: a call with two layouts has stored its output and is about
\* to write to a sink that fails, with nothing written yet.
C24_Witness ==
  \E p \in Procs :
    /\ g[p].pc = "emit"
    /\ g[p].sink = "fail"
    /\ g[p].stored
    /\ Len(g[p].trace) = 3
    /\ g[p].out = ""
    /\ cache[g[p].cacheKey] = g[p].content


\* the call failed in an execution: of the base template (position 0) or of
\* the layout at the position returned
FailedAt(h) == Len(h.trace) - 1

ExecutionFailedIn(h) ==
  /\ ~h.hit
  /\ Len(h.trace) >= 1
  /\ ~h.trace[Len(h.trace)].ok

\* C25: a call in which a template execution failed returns an error that
\* wraps the execution failure and tells which execution failed, the base
\* template or the layout at which position: two calls that failed at
\* different positions return different errors.
C25_ErrorIdentifiesFailingTemplate ==
  /\ \A i \in Returned :
       ExecutionFailedIn(history[i])
       => "ErrTemplateExecutionFailed" \in history[i].err.is
  /\ \A i, j \in Returned :
       (/\ ExecutionFailedIn(history[i])
        /\ ExecutionFailedIn(history[j])
        /\ FailedAt(history[i]) # FailedAt(history[j]))
       => history[i].err # history[j].err


\* C26: every file under the root whose extension is configured is
\* registered under its path relative to the root, with "/" separators and
\* without the extension: a call for that name with no layouts that is not
\* served from the cache finds the template and executes the content of
\* the file.
C26_FilesRegisteredByRelativePath ==
  (root \in Roots /\ Initialized) =>
    \A i \in Returned : \A f \in ValidExt(root) :
      LET h == history[i] IN
      (h.name = TmplName(f) /\ h.layouts = << >> /\ ~h.hit)
      => (/\ Registered(h.name)
          /\ templates[h.name] = f.body
          /\ h.err # TemplateNotFound(h.name)
          /\ Len(h.trace) = 1
          /\ h.trace[1].tmpl = h.name)


\* C27: whatever Render, RenderString and RenderHTML calls were made, the
\* registry is the one New built: the same names, the same templates, and
\* the function map of the set as New bound it; the functions of a call
\* are bound to the clone the call executes.
C27_RendersLeaveRegistryUnchanged ==
  (root \in Roots /\ Initialized) =>
    /\ templates = Walk(root).tmpl
    /\ funcMaps[TemplateFuncs] = InitialFuncs
    /\ funcMaps[TemplateFuncs]["T"] = "placeholder"
    /\ funcMaps[TemplateFuncs]["embed"] = "placeholder"

\* C27 happens: RenderString executed the base template and two layouts
\* with the functions of its context, and a Render in another call
\* executed them again.
C27_Witness ==
  /\ Len(history) = 2
  /\ history[1].api = "RenderString"
  /\ history[2].api = "Render"
  /\ \A i \in Returned :
       /\ ~history[i].hit
       /\ Len(history[i].trace) = 3
       /\ history[i].trace[3].embed # ""
  /\ funcMaps[TemplateFuncs] = InitialFuncs


\* an upper bound of the steps a call has left: the statements of Render
\* after its position, with one round of the loop per layout not yet
\* executed
Rank(gp) ==
  LET n == Len(gp.layouts) IN
  CASE gp.pc = "call" -> n + 10
    [] gp.pc = "probe" -> n + 9
    [] gp.pc = "getbuf" -> n + 8
    [] gp.pc = "lookup" -> n + 7
    [] gp.pc = "execbase" -> n + 6
    [] gp.pc = "chain" -> n + 5
    [] gp.pc = "build" -> n + 4
    [] gp.pc = "wrap" -> 3 + (Len(gp.chain) + 1 - gp.i)
    [] gp.pc = "emit" -> 2
    [] gp.pc = "ret" -> 1
    [] OTHER -> 0

\* C28: every call that has started returns; every step of a call that has
\* not returned brings it strictly closer to its return, so the call
\* returns after a bounded number of steps; a step executes one template
\* at most, the base template first and then the layouts at positions
\* 1, 2, ... of the list, each position once, and only when every
\* execution before it succeeded.
C28_RenderTerminatesExecutingOnce ==
  /\ \A p \in Procs : (g[p].pc # "idle") ~> (g[p].pc = "done")
  /\ [][\A p \in Procs :
          (g[p].pc \notin {"idle", "done"} /\ g'[p] # g[p])
          => (/\ Rank(g'[p]) < Rank(g[p])
              /\ Rank(g'[p]) >= 0
              /\ \/ g'[p].trace = g[p].trace
                 \/ LET n == Len(g[p].trace) + 1 IN
                    /\ g'[p].trace = Append(g[p].trace, g'[p].trace[n])
                    /\ \A k \in 1 .. n - 1 : g[p].trace[k].ok
                    /\ n <= Len(g[p].layouts) + 1
                    /\ g'[p].trace[n].tmpl =
                         IF n = 1 THEN g[p].name ELSE g[p].layouts[n - 1])]_vars

\* C28 happens: one call executed its base template and its two layouts
\* and returned, another failed in its base template and returned without
\* executing any of its two layouts.
C28_Witness ==
  \E i, j \in Returned :
    /\ Len(history[i].trace) = 3
    /\ history[i].err = NoError
    /\ Len(history[j].layouts) = 2
    /\ Len(history[j].trace) = 1
    /\ ~history[j].trace[1].ok
    /\ "ErrTemplateExecutionFailed" \in history[j].err.is


\* C29: two calls with different template names or different layout lists
\* never have the same render-cache key, also when a name holds the
\* character the key is joined with; so no call is served an entry that a
\* call for another name or another layout list stored.
C29_KeyInjectiveOnNameAndLayouts ==
  /\ \A i, j \in Returned :
       (/\ Initialized
        /\ \/ history[i].name # history[j].name
           \/ history[i].layouts # history[j].layouts)
       => history[i].cacheKey # history[j].cacheKey
  /\ \A i \in Returned :
       history[i].hit
       => (/\ origin[history[i].cacheKey].name = history[i].name
           /\ origin[history[i].cacheKey].layouts = history[i].layouts)


\* C30: once the render cache holds a value under a key, no step of any
\* call, concurrent calls included, puts another value under that key, so
\* every call served from that key gets the same bytes.
C30_StoredValueNeverChanges ==
  [][\A k \in DOMAIN cache : k \in DOMAIN cache' /\ cache'[k] = cache[k]]_vars


\* C31: in soft-cache mode, every call that succeeds returns the output an
\* engine without a render cache returns for the same context, name,
\* binding and layouts: the composition executed with the arguments of the
\* call itself.
C31_SoftCacheTransparent ==
  ~hardCache =>
    \A i \in Returned :
      LET h == history[i] IN
      (Initialized /\ h.err = NoError)
      => (Reference(ArgsOf(h)).ok /\ h.out = Reference(ArgsOf(h)).buf)


\* the translators of two contexts give different results for a key the
\* templates translate
OtherTranslator(c, d) == getTranslator(c, "hello") # getTranslator(d, "hello")

\* C32: two calls whose contexts give different translators, a context
\* without locale against one with locale en included, never have the same
\* render-cache key, and a call is served only an entry stored under a
\* context whose translator is its own.
C32_OtherContextOtherEntry ==
  /\ \A i, j \in Returned :
       (Initialized /\ OtherTranslator(history[i].ctx, history[j].ctx))
       => history[i].cacheKey # history[j].cacheKey
  /\ \A i \in Returned :
       history[i].hit
       => ~OtherTranslator(origin[history[i].cacheKey].ctx, history[i].ctx)


\* C33: a call that failed because its base template or one of its layouts
\* is not registered returned an error that errors.Is matches with
\* ErrTemplateNotFound.
C33_LookupFailuresAreNotFound ==
  \A i \in Returned :
    LET h == history[i] IN
    (/\ Initialized
     /\ ~h.hit
     /\ h.err # NoError
     /\ \/ ~Registered(h.name)
        \/ /\ Len(h.trace) = 1
           /\ h.trace[1].ok
           /\ \E k \in 1 .. Len(h.layouts) : ~Registered(h.layouts[k]))
    => "ErrTemplateNotFound" \in h.err.is


\* the buffers a goroutine holds: the working buffer of Render and the
\* output buffer of RenderString or RenderHTML
HeldBy(p) == {g[p].buf, g[p].obuf} \ {NoBuf}

\* C34: no buffer is held by two goroutines at the same time, the output
\* buffer of a RenderString or RenderHTML call is not the working buffer of
\* the Render it calls, and no buffer that is held is in the pool.
C34_NoBufferHeldTwice ==
  /\ \A p, q \in Procs : p # q => HeldBy(p) \cap HeldBy(q) = {}
  /\ \A p \in Procs : g[p].buf # NoBuf => g[p].buf # g[p].obuf
  /\ \A p \in Procs : HeldBy(p) \cap bufferPool = {}

\* C34 happens: two goroutines are inside RenderString at the
\* same time, each in the layout loop with an output buffer and a working
\* buffer.
C34_Witness ==
  \E p, q \in Procs :
    /\ p # q
    /\ Cardinality(HeldBy(p)) = 2
    /\ Cardinality(HeldBy(q)) = 2
    /\ g[p].pc = "wrap"
    /\ g[q].pc = "wrap"


\* every execution recorded started on an empty buffer
StartedEmpty(trace) == \A k \in 1 .. Len(trace) : trace[k].before = ""

\* C35: every execution of a template, the base or a layout, of a running
\* or returned call started on an empty working buffer; the output of a
\* call that rendered is what its last execution wrote, and every cached
\* value is the output of the composition of the call that stored it, with
\* no byte of another render or of an earlier step around it.
C35_ExecutionsStartOnEmptyBuffer ==
  /\ \A p \in Procs : StartedEmpty(g[p].trace)
  /\ \A i \in Returned :
       LET h == history[i] IN
       /\ StartedEmpty(h.trace)
       /\ (~h.hit /\ h.err = NoError)
          => (/\ h.trace[1].after = DirectBase(ArgsOf(h)).buf
              /\ h.out = h.trace[Len(h.trace)].after)
  /\ \A k \in DOMAIN cache : cache[k] = Reference(origin[k]).buf

\* C35 happens: a call took the buffer an earlier render had put back with
\* its output in it, executed its base template and its first layout in
\* it, each on the emptied buffer.
C35_Witness ==
  /\ Len(history) = 1
  /\ ~history[1].hit
  /\ history[1].out # ""
  /\ bufferPool = {}
  /\ \E p \in Procs :
       /\ g[p].pc = "wrap"
       /\ g[p].i = 2
       /\ Len(g[p].trace) = 2
       /\ g[p].trace[1].after # ""
       /\ g[p].trace[2].before = ""


C37_ReadLockOnlyAroundLookup ==
  /\ \A p \in Procs :
       p \in mu => (/\ g[p].pc = "lookup"
                    /\ g[p].trace = << >>
                    /\ g[p].out = "")
  /\ \A p \in Procs : g[p].pc = "getbuf" => ENABLED GetBuffer(p)

\* C37 happens: one goroutine holds the read lock at the lookup while
\* another, which took the lock and released it, is executing its layouts.
C37_Witness ==
  \E p, q \in Procs :
    /\ p \in mu
    /\ g[p].pc = "lookup"
    /\ q \notin mu
    /\ g[q].pc = "wrap"
    /\ Len(g[q].trace) >= 1

====
